---- MODULE Spec2Model ----
(***************************************************************************)
(* pstatool: per-project language statistics rendered into an SVG stats    *)
(* card and stored in PostgreSQL.                                          *)
(*                                                                         *)
(* Modelling conventions                                                   *)
(*  - A String is a sequence of chunks.  A chunk is a record with a `kind` *)
(*    field: a piece of literal text, a formatted number, one <rect> of    *)
(*    the bar, one label row.  A placeholder token of the template is a    *)
(*    text chunk, so str::replace is a search for equal chunks.            *)
(*  - An f64 is an exact rational [num, den] in lowest terms.  `{:.2}`     *)
(*    prints the value rounded half-to-even to hundredths, and the printed *)
(*    text is modelled by that integer number of hundredths.  For the line *)
(*    counts the model draws (totals far below 160) the rational result    *)
(*    and the IEEE-754 result print the same digits.                       *)
(*  - A HashMap is a function; its iteration order is any permutation of   *)
(*    its keys, chosen anew by every traversal's caller.                   *)
(***************************************************************************)
EXTENDS Integers, Sequences, FiniteSets, Bags, TLC

VARIABLES
    LANGUAGE_COLORS,    \* the Lazy static: <<>> until first forced, then <<map>>
    cloc,               \* ClocData.languages handed to generate_svg
    title,              \* project title handed to generate_svg
    lang_data,          \* cloc_to_svg_template_data's lang_data after truncate
    data,               \* the SvgTemplateData it returned
    svg,                \* the document generate_svg returned
    pc,                 \* control location
    project_table,      \* table project: a set of rows
    stat_table,         \* table project_language_stat: a bag of rows
    projects,           \* process_all_projects: the projects still to process
    project,            \* process_project: its project, <<>> outside it
    temp_dirs,          \* the directories that exist under temp_folder
    svg_files,          \* the files under svg_folder: <<user, name>> -> text
    cloc_raw,           \* run_cloc: the mapping as parsed, before retain
    config,             \* process_project: the ClocConfig of its project
    result              \* how the last fallible call ended: "ok", "err", "none"

renderVars == <<LANGUAGE_COLORS, cloc, title, lang_data, data, svg>>
dbVars == <<project_table, stat_table>>
mainVars == <<projects, project, temp_dirs, svg_files, cloc_raw, config, result>>

vars == <<LANGUAGE_COLORS, cloc, title, lang_data, data, svg, pc,
          project_table, stat_table, projects, project, temp_dirs, svg_files,
          cloc_raw, config, result>>

(***************************************************************************)
(* Bounds of the model                                                     *)
(***************************************************************************)
MaxCode      == 1   \* code lines of one language of a small mapping
MaxRankLines == 2   \* lines of one language of a large mapping
MaxLangsLen  == 3   \* atoms of a project's ignored_langs
MaxDirsLen   == 2   \* atoms of a project's ignored_dirs

(***************************************************************************)
(* Program constants                                                       *)
(***************************************************************************)
TOP_N        == 6       \* lang_data.truncate(6)
CANVAS_WIDTH == 250     \* (pct / 100.0) * 250.0
ROW_HEIGHT   == 25      \* translate(0, i * 25)
BASE_DELAY   == 450     \* 450 + (i % 3) * 150
STEP_DELAY   == 150
default_color == "#cccccc"

NamePool == <<"Rust", "Go", "TS", "Swift", "Lua", "C", "Java", "Zig">>

Min(a, b) == IF a < b THEN a ELSE b

(***************************************************************************)
(* model.rs                                                                *)
(***************************************************************************)
LanguageStats ==
    [n_files : 1..2, blank : 0..1, comment : 0..1, code : 0..MaxCode]

total_lines(stats) == stats.blank + stats.comment + stats.code

(***************************************************************************)
(* f64 arithmetic and formatting                                           *)
(***************************************************************************)
RECURSIVE Gcd(_, _)
Gcd(a, b) == IF b = 0 THEN a ELSE Gcd(b, a % b)

Rat(n, d) == LET g == Gcd(n, d) IN [num |-> n \div g, den |-> d \div g]

RatAdd(a, b) == Rat(a.num * b.den + b.num * a.den, a.den * b.den)

\* format!("{:.2}", r): hundredths, round half to even
Fmt2(r) ==
    LET n == r.num * 100
        q == n \div r.den
        twice == 2 * (n % r.den)
    IN  IF twice > r.den \/ (twice = r.den /\ q % 2 = 1) THEN q + 1 ELSE q

(***************************************************************************)
(* Chunks of text                                                          *)
(***************************************************************************)
Text(s) == [kind |-> "text", text |-> s]
Num(n)  == [kind |-> "num", value |-> n]

RectChunk(x, width, fill) ==
    [kind |-> "rect", x |-> x, width |-> width, fill |-> fill]

LabelChunk(delay, fill, lang, pct) ==
    [kind |-> "label", delay |-> delay, fill |-> fill, lang |-> lang, pct |-> pct]

GroupChunk(offset, label) ==
    [kind |-> "g", translate |-> offset, label |-> label]

(***************************************************************************)
(* assets/langs.yml as serde_yaml parses it: name -> Language.  Rust and   *)
(* Swift carry a color (tests::test_get_lang_color); Go stands for an      *)
(* entry without a color field; every other name has no entry.             *)
(***************************************************************************)
Color(c) == [color |-> <<c>>]
NoColorEntry == [color |-> <<>>]

LangsYml ==
    [Rust |-> Color("#dea584"), Swift |-> Color("#F05138"), Go |-> NoColorEntry]

(***************************************************************************)
(* svg.rs: colour registry                                                 *)
(***************************************************************************)
\* Language { color: Option<String> }: <<>> is None, <<c>> is Some(c)
load_language_colors(parsed) ==
    LET kept == {k \in DOMAIN parsed : parsed[k].color # <<>>}
    IN  [k \in kept |-> parsed[k].color[1]]

\* Lazy::force
ForceColors(lazy, yml) ==
    IF lazy = <<>> THEN <<load_language_colors(yml)>> ELSE lazy

\* variant: the lookup result is dropped and the default always used
ColorOf_default(colors, lang) == default_color

\* LANGUAGE_COLORS.get(lang).unwrap_or(&default_color_owned)
ColorOf(colors, lang) ==
    IF lang \in DOMAIN colors THEN colors[lang] ELSE default_color

(***************************************************************************)
(* svg.rs: cloc_to_svg_template_data                                       *)
(***************************************************************************)
RECURSIVE IterOrders(_)
IterOrders(S) ==
    IF S = {} THEN {<<>>}
    ELSE UNION {{<<x>> \o p : p \in IterOrders(S \ {x})} : x \in S}

RECURSIVE TotalLoc(_)
TotalLoc(languages) ==
    IF DOMAIN languages = {} THEN 0
    ELSE LET k == CHOOSE k \in DOMAIN languages : TRUE
         IN  total_lines(languages[k])
               + TotalLoc([j \in DOMAIN languages \ {k} |-> languages[j]])

RECURSIVE TotalFiles(_)
TotalFiles(languages) ==
    IF DOMAIN languages = {} THEN 0
    ELSE LET k == CHOOSE k \in DOMAIN languages : TRUE
         IN  languages[k].n_files
               + TotalFiles([j \in DOMAIN languages \ {k} |-> languages[j]])

\* .iter().map(|(lang, stats)| (lang, total_lines, pct, width)).collect()
Collect(languages, order, total_loc) ==
    [i \in 1..Len(order) |->
        [lang  |-> order[i],
         lines |-> total_lines(languages[order[i]]),
         pct   |-> Rat(total_lines(languages[order[i]]) * 100, total_loc),
         width |-> Rat(total_lines(languages[order[i]]) * CANVAS_WIDTH, total_loc)]]

\* b.1.cmp(&a.1): `a` goes before `b` unless b has strictly more lines
RECURSIVE InsertStable(_, _)
InsertStable(sorted, e) ==
    IF sorted = <<>> THEN <<e>>
    ELSE IF Head(sorted).lines >= e.lines
         THEN <<Head(sorted)>> \o InsertStable(Tail(sorted), e)
         ELSE <<e>> \o sorted

\* variant: the comparator's operands swapped, a.1.cmp(&b.1)
RECURSIVE InsertAscending(_, _)
InsertAscending(sorted, e) ==
    IF sorted = <<>> THEN <<e>>
    ELSE IF Head(sorted).lines <= e.lines
         THEN <<Head(sorted)>> \o InsertAscending(Tail(sorted), e)
         ELSE <<e>> \o sorted

RECURSIVE sort_by_ascending(_)
sort_by_ascending(v) ==
    IF v = <<>> THEN <<>>
    ELSE InsertAscending(sort_by_ascending(SubSeq(v, 1, Len(v) - 1)), v[Len(v)])

\* slice::sort_by is stable: equal elements keep their order
RECURSIVE sort_by(_)
sort_by(v) ==
    IF v = <<>> THEN <<>>
    ELSE InsertStable(sort_by(SubSeq(v, 1, Len(v) - 1)), v[Len(v)])

truncate(v, n) == SubSeq(v, 1, Min(n, Len(v)))

RankedLangData(languages, order) ==
    truncate(sort_by(Collect(languages, order, TotalLoc(languages))), TOP_N)

\* variant: cumulative_x = width instead of cumulative_x += width
RECURSIVE Rects_assign(_, _, _, _)
Rects_assign(ld, i, cumulative_x, colors) ==
    IF i > Len(ld) THEN <<>>
    ELSE <<RectChunk(Fmt2(cumulative_x), Fmt2(ld[i].width),
                     ColorOf(colors, ld[i].lang))>>
            \o Rects_assign(ld, i + 1, ld[i].width, colors)

\* for (lang, _, _, width) in &lang_data { push rect; cumulative_x += width }
RECURSIVE Rects(_, _, _, _)
Rects(ld, i, cumulative_x, colors) ==
    IF i > Len(ld) THEN <<>>
    ELSE <<RectChunk(Fmt2(cumulative_x), Fmt2(ld[i].width),
                     ColorOf(colors, ld[i].lang))>>
            \o Rects(ld, i + 1, RatAdd(cumulative_x, ld[i].width), colors)

\* the label of the entry at 0-based index i
Label(ld, i, colors) ==
    LabelChunk(BASE_DELAY + (i % 3) * STEP_DELAY, ColorOf(colors, ld[i + 1].lang),
               ld[i + 1].lang, Fmt2(ld[i + 1].pct))

\* variant: the branches of `if i % 2 == 0` swapped
RECURSIVE Labels_swapped(_, _, _, _)
Labels_swapped(ld, i, parity, colors) ==
    IF i >= Len(ld) THEN <<>>
    ELSE (IF i % 2 # parity THEN <<Label(ld, i, colors)>> ELSE <<>>)
            \o Labels_swapped(ld, i + 1, parity, colors)

\* left_labels (parity 0) and right_labels (parity 1), in push order
RECURSIVE Labels(_, _, _, _)
Labels(ld, i, parity, colors) ==
    IF i >= Len(ld) THEN <<>>
    ELSE (IF i % 2 = parity THEN <<Label(ld, i, colors)>> ELSE <<>>)
            \o Labels(ld, i + 1, parity, colors)

\* .enumerate().map(|(i, label)| <g translate(0, i * 25)>).join("\n")
RECURSIVE JoinGroups(_, _)
JoinGroups(labels, i) ==
    IF i >= Len(labels) THEN <<>>
    ELSE (IF i = 0 THEN <<>> ELSE <<Text("\n")>>)
            \o <<GroupChunk(i * ROW_HEIGHT, labels[i + 1])>>
            \o JoinGroups(labels, i + 1)

EmptyData ==
    [total_lines |-> 0, total_files |-> 0,
     bar |-> <<Text("<svg><!-- No code found --></svg>")>>,
     left_block |-> <<>>, right_block |-> <<>>]

\* the lines of the entries of a lang_data
RECURSIVE RankedLines(_, _)
RankedLines(ld, i) == IF i = 0 THEN 0 ELSE ld[i].lines + RankedLines(ld, i - 1)

\* variant: the totals summed after truncate, over the ranked entries
cloc_to_svg_template_data_ranked_totals(languages, order, colors) ==
    LET total_loc == TotalLoc(languages)
        ld == RankedLangData(languages, order)
    IN  IF total_loc = 0 THEN EmptyData
        ELSE [total_lines |-> RankedLines(ld, Len(ld)),
              total_files |-> Len(ld),
              bar         |-> Rects(ld, 1, Rat(0, 1), colors),
              left_block  |-> JoinGroups(Labels(ld, 0, 0, colors), 0),
              right_block |-> JoinGroups(Labels(ld, 0, 1, colors), 0)]

\* variant: the early return reports the files it counted
cloc_to_svg_template_data_counted_files(languages, order, colors) ==
    LET total_loc == TotalLoc(languages)
        total_files == TotalFiles(languages)
        ld == RankedLangData(languages, order)
    IN  IF total_loc = 0 THEN [EmptyData EXCEPT !.total_files = total_files]
        ELSE [total_lines |-> total_loc,
              total_files |-> total_files,
              bar         |-> Rects(ld, 1, Rat(0, 1), colors),
              left_block  |-> JoinGroups(Labels(ld, 0, 0, colors), 0),
              right_block |-> JoinGroups(Labels(ld, 0, 1, colors), 0)]

cloc_to_svg_template_data(languages, order, colors) ==
    LET total_loc == TotalLoc(languages)
        total_files == TotalFiles(languages)
        ld == RankedLangData(languages, order)
    IN  IF total_loc = 0 THEN EmptyData
        ELSE [total_lines |-> total_loc,
              total_files |-> total_files,
              bar         |-> Rects(ld, 1, Rat(0, 1), colors),
              left_block  |-> JoinGroups(Labels(ld, 0, 0, colors), 0),
              right_block |-> JoinGroups(Labels(ld, 0, 1, colors), 0)]

(***************************************************************************)
(* main.rs: create_cloc_config.  A String is a sequence of atoms: "," and  *)
(* " " stand for themselves, any other atom for a run of characters that   *)
(* holds neither.  Option<String> is <<>> or <<s>>.                        *)
(***************************************************************************)
default_ignored_dirs == <<(<<"target">>), (<<".idea">>), (<<".git">>), (<<".build">>)>>

default_ignored_langs ==
    <<(<<"JSON">>), (<<"Markdown">>), (<<"Maven">>), (<<"Properties">>),
      (<<"SVG">>), (<<"TOML">>), (<<"XML">>), (<<"YAML">>)>>

is_whitespace(c) == c = " "

RECURSIVE trim_start(_)
trim_start(s) ==
    IF s # <<>> /\ is_whitespace(Head(s)) THEN trim_start(Tail(s)) ELSE s

RECURSIVE trim_end(_)
trim_end(s) ==
    IF s # <<>> /\ is_whitespace(s[Len(s)])
    THEN trim_end(SubSeq(s, 1, Len(s) - 1)) ELSE s

\* variant: only the leading whitespace is removed
trim_leading(s) == trim_start(s)

\* str::trim
trim(s) == trim_end(trim_start(s))

\* str::split(','): the pieces between the commas, empty ones included
RECURSIVE split(_)
split(s) ==
    LET commas == {i \in 1..Len(s) : s[i] = ","}
    IN  IF commas = {} THEN <<s>>
        ELSE LET i == CHOOSE c \in commas : \A d \in commas : c <= d
             IN  <<SubSeq(s, 1, i - 1)>> \o split(SubSeq(s, i + 1, Len(s)))

\* Vec::dedup: of consecutive equal elements the first is kept
RECURSIVE dedup(_)
dedup(v) ==
    IF Len(v) <= 1 THEN v
    ELSE LET rest == dedup(Tail(v))
         IN  IF Head(v) = Head(rest) THEN rest ELSE <<Head(v)>> \o rest

\* v.extend(field.split(',').map(|s| s.trim().to_string())) when Some(field)
extend(v, field) ==
    IF field = <<>> THEN v
    ELSE v \o [i \in 1..Len(split(field[1])) |-> trim(split(field[1])[i])]

create_cloc_config(proj, path) ==
    [path          |-> path,
     ignored_langs |-> dedup(extend(default_ignored_langs, proj.ignored_langs)),
     ignored_dirs  |-> dedup(extend(default_ignored_dirs, proj.ignored_dirs))]

NoConfig == [path |-> "", ignored_langs |-> <<>>, ignored_dirs |-> <<>>]

(***************************************************************************)
(* svg.rs: generate_svg                                                    *)
(***************************************************************************)
\* assets/template.svg: the five placeholders, each once, between markup
Template ==
    <<Text("<svg><text>"), Text("#header#"), Text("</text><text>"),
      Text("#subheader#"), Text("</text><g>"), Text("#bar_rects#"),
      Text("</g><g>"), Text("#left_block#"), Text("</g><g>"),
      Text("#right_block#"), Text("</g></svg>")>>

\* the index of the first match of `from` in s, 0 when there is none
FirstMatch(s, from) ==
    LET hits == {i \in 1..Len(s) : s[i] = Text(from)}
    IN  IF hits = {} THEN 0 ELSE CHOOSE i \in hits : \A j \in hits : i <= j

\* str::replace(from, to): for every match of `from`, left to right, the
\* text before it and then `to`; at the end the text after the last match
RECURSIVE replace(_, _, _)
replace(s, from, to) ==
    LET i == FirstMatch(s, from)
    IN  IF i = 0 THEN s
        ELSE SubSeq(s, 1, i - 1) \o to
                \o replace(SubSeq(s, i + 1, Len(s)), from, to)

\* format!("{} lines of code in {} files", total_lines, total_files)
Subheader(d) ==
    <<Num(d.total_lines), Text(" lines of code in "), Num(d.total_files),
      Text(" files")>>

\* format!("Stats for {}", project_name)
Header(project_name) == <<Text("Stats for ")>> \o project_name

Render(project_name, d) ==
    replace(
      replace(
        replace(
          replace(
            replace(Template, "#header#", Header(project_name)),
            "#subheader#", Subheader(d)),
          "#bar_rects#", d.bar),
        "#left_block#", d.left_block),
      "#right_block#", d.right_block)

\* The colour table is forced only where the code reads it: never on the
\* zero-total path.
ColorsAfter(lazy, yml, languages) ==
    IF TotalLoc(languages) = 0 THEN lazy ELSE ForceColors(lazy, yml)

ColorsUsed(lazy, yml) == ForceColors(lazy, yml)[1]

\* generate_svg(project_name, cloc) with the traversal order `order`
GenerateSvg(project_name, languages, order) ==
    LET colors == ColorsUsed(LANGUAGE_COLORS, LangsYml)
        d == cloc_to_svg_template_data(languages, order, colors)
    IN  /\ LANGUAGE_COLORS' = ColorsAfter(LANGUAGE_COLORS, LangsYml, languages)
        /\ lang_data' = IF TotalLoc(languages) = 0 THEN <<>>
                        ELSE RankedLangData(languages, order)
        /\ data' = d
        /\ svg' = Render(project_name, d)

(***************************************************************************)
(* Inputs                                                                  *)
(***************************************************************************)
Unset == <<>>

Titles == {<<Text("Baby Care")>>, <<Text("#subheader#")>>}

\* Small mappings: any languages among RenderNames, any statistics.
RenderNames == {"Rust", "Go", "TS"}

ClocInputs == UNION {[N -> LanguageStats] : N \in SUBSET RenderNames}

\* Large mappings, up to one language more than the ranking keeps.  The
\* languages are the first n of NamePool and their line counts do not
\* increase along it: every multiset of counts occurs, and every traversal
\* order of each mapping is explored, so which name carries which count
\* adds nothing.
RankStats(t) == [n_files |-> 1 + (t % 2), blank |-> 0, comment |-> 0, code |-> t]

RankSizes == (Cardinality(RenderNames) + 1)..(TOP_N + 1)

RankInputs ==
    UNION {
      {[k \in {NamePool[i] : i \in 1..n} |->
            RankStats(c[CHOOSE i \in 1..n : NamePool[i] = k])]
         : c \in {c \in [1..n -> 1..MaxRankLines] :
                    \A i \in 1..(n - 1) : c[i] >= c[i + 1]}}
      : n \in RankSizes}

(***************************************************************************)
(* SpecRender: generate_svg as a function of its inputs                    *)
(***************************************************************************)
InitRender ==
    /\ LANGUAGE_COLORS = Unset
    /\ \/ cloc \in ClocInputs /\ title \in Titles
       \/ cloc \in RankInputs /\ title = <<Text("Baby Care")>>
    /\ lang_data = <<>>
    /\ data = Unset
    /\ svg = Unset
    /\ pc = "ready"
    /\ project_table = {}
    /\ stat_table = EmptyBag
    /\ projects = <<>>
    /\ project = [id |-> 0, user |-> "", project_name |-> "", title |-> <<>>,
                  ignored_dirs |-> <<>>, ignored_langs |-> <<>>]
    /\ temp_dirs = {}
    /\ svg_files = <<>>
    /\ cloc_raw = <<>>
    /\ config = NoConfig
    /\ result = "none"

CallGenerateSvg ==
    /\ pc = "ready"
    /\ \E order \in IterOrders(DOMAIN cloc) :
          GenerateSvg(title, cloc, order)
    /\ pc' = "rendered"
    /\ UNCHANGED <<cloc, title>>
    /\ UNCHANGED <<dbVars, mainVars>>

NextRender == CallGenerateSvg

SpecRender == InitRender /\ [][NextRender]_vars

(***************************************************************************)
(* db.rs                                                                   *)
(***************************************************************************)
\* SELECT id FROM project WHERE "user" = $1 AND project_name = $2
MatchingProjects(table, github_user, project_name) ==
    {r \in table : r.user = github_user /\ r.project_name = project_name}

\* DELETE FROM project_language_stat WHERE project_id = $1
DeleteStats(table, project_id) ==
    LET kept == {r \in DOMAIN table : r.project_id # project_id}
    IN  [r \in kept |-> table[r]]

\* the row of one INSERT INTO project_language_stat; the counts the model
\* draws are far below 2^31, where `as i32` changes nothing
StatRow(project_id, language, stats) ==
    [project_id |-> project_id, language |-> language,
     files |-> stats.n_files, total_lines |-> total_lines(stats)]

\* for (language, stats) in &cloc_result.languages { skip "SUM"; INSERT }
RECURSIVE InsertStats(_, _, _, _, _)
InsertStats(table, project_id, languages, order, i) ==
    IF i > Len(order) THEN table
    ELSE InsertStats(
            IF order[i] = "SUM" THEN table
            ELSE table (+) SetToBag({StatRow(project_id, order[i],
                                             languages[order[i]])}),
            project_id, languages, order, i + 1)

\* variant: the DELETE of the earlier rows left out
SavedStats_without_delete(table, project_id, languages, order) ==
    InsertStats(table, project_id, languages, order, 1)

\* the statements of the transaction once project_id is known
SavedStats(table, project_id, languages, order) ==
    InsertStats(DeleteStats(table, project_id), project_id, languages, order, 1)

\* save_project_stats.  A statement may fail (the connection, the server):
\* `?` returns, the transaction is dropped and rolled back.  The INSERT INTO
\* project gives no title, which the table declares NOT NULL without a
\* default, so for a project without a row the transaction ends that way.
\* fetch_optional takes one of the matching rows.
SaveProjectStats(github_user, project_name, languages) ==
    \/ /\ result' = "err"
       /\ UNCHANGED dbVars
    \/ /\ MatchingProjects(project_table, github_user, project_name) = {}
       /\ result' = "err"
       /\ UNCHANGED dbVars
    \/ \E record \in MatchingProjects(project_table, github_user, project_name) :
         \E order \in IterOrders(DOMAIN languages) :
            /\ stat_table' = SavedStats(stat_table, record.id, languages, order)
            /\ project_table' = project_table
            /\ result' = "ok"

(***************************************************************************)
(* main.rs: run_cloc                                                       *)
(***************************************************************************)
\* u8::to_ascii_lowercase over the names of the model
to_ascii_lowercase(name) ==
    CASE name \in {"SUM", "Sum", "sum"} -> "sum"
      [] name = "Rust" -> "rust"
      [] name = "Go" -> "go"
      [] OTHER -> name

eq_ignore_ascii_case(a, b) == to_ascii_lowercase(a) = to_ascii_lowercase(b)

\* variant: the comparison db.rs makes, language == "SUM"
retain_not_sum_exact(languages) ==
    [k \in {k \in DOMAIN languages : k # "SUM"} |-> languages[k]]

\* .retain(|lang, _| !lang.eq_ignore_ascii_case("sum"))
retain_not_sum(languages) ==
    [k \in {k \in DOMAIN languages : ~eq_ignore_ascii_case(k, "sum")}
        |-> languages[k]]

(***************************************************************************)
(* Inputs of a run of the program                                          *)
(***************************************************************************)
NoProject ==
    [id |-> 0, user |-> "", project_name |-> "", title |-> <<>>,
     ignored_dirs |-> <<>>, ignored_langs |-> <<>>]

ProjectRows ==
    {[id |-> 1, user |-> "wdudokvanheel", project_name |-> "chip8",
      title |-> <<Text("Chip 8 Emu")>>,
      ignored_dirs |-> <<(<<"BabyCare.xcodeproj", ",", "Assets.xcassets">>)>>,
      ignored_langs |-> <<(<<"Lua">>)>>],
     [id |-> 2, user |-> "wdudokvanheel", project_name |-> "babycare",
      title |-> <<Text("Baby Care")>>,
      ignored_dirs |-> <<>>, ignored_langs |-> <<>>]}

\* rows an earlier run left, two of them equal
OldStats ==
    SetToBag({[project_id |-> 1, language |-> "Lua", files |-> 1, total_lines |-> 9],
              [project_id |-> 2, language |-> "Go", files |-> 1, total_lines |-> 1]})
    (+) SetToBag({[project_id |-> 1, language |-> "Rust", files |-> 1, total_lines |-> 1]})
    (+) SetToBag({[project_id |-> 1, language |-> "Rust", files |-> 1, total_lines |-> 1]})

\* what cloc prints for a checkout: languages, and its own total under a key
\* that is "SUM" in cloc's output, here in any letter case, or missing
RunStats == {st \in LanguageStats : st.n_files = 1 /\ st.blank = 0 /\ st.comment = 0}

RunLanguages == UNION {[N -> RunStats] : N \in SUBSET {"Rust", "Go"}}

SumEntry(languages) ==
    [n_files |-> TotalFiles(languages), blank |-> 0, comment |-> 0,
     code |-> TotalLoc(languages)]

WithSum(languages, key) ==
    [k \in DOMAIN languages \cup {key} |->
        IF k = key THEN SumEntry(languages) ELSE languages[k]]

RawOutputs ==
    RunLanguages
      \cup {WithSum(l, key) : l \in RunLanguages, key \in {"SUM", "Sum", "sum"}}

(***************************************************************************)
(* main.rs: main, process_all_projects, process_project                    *)
(***************************************************************************)
Init ==
    /\ LANGUAGE_COLORS = Unset
    /\ cloc = <<>>
    /\ title = <<>>
    /\ lang_data = <<>>
    /\ data = Unset
    /\ svg = Unset
    /\ pc = "main"
    /\ project_table \in SUBSET ProjectRows
    /\ stat_table \in {EmptyBag, OldStats}
    /\ projects = <<>>
    /\ project = NoProject
    /\ temp_dirs = {}
    /\ svg_files = <<>>
    /\ cloc_raw = <<>>
    /\ config = NoConfig
    /\ result = "none"

\* main: db::create_database_if_not_exists, then process_all_projects
CreateDatabase ==
    /\ pc = "main"
    /\ \/ result' = "err" /\ pc' = "done"
       \/ result' = "ok" /\ pc' = "fetch"
    /\ UNCHANGED <<renderVars, dbVars, projects, project, temp_dirs, svg_files,
                   cloc_raw, config>>

\* db::get_all_projects: the rows of project, in the order the server sends
GetAllProjects ==
    /\ pc = "fetch"
    /\ \/ result' = "err" /\ pc' = "done" /\ projects' = projects
       \/ /\ result' = "ok"
          /\ projects' \in IterOrders(project_table)
          /\ pc' = "loop"
    /\ UNCHANGED <<renderVars, dbVars, project, temp_dirs, svg_files,
                   cloc_raw, config>>

\* for project in projects
NextProject ==
    /\ pc = "loop"
    /\ IF projects = <<>>
       THEN pc' = "done" /\ project' = NoProject /\ projects' = projects
       ELSE pc' = "clone" /\ project' = Head(projects) /\ projects' = Tail(projects)
    /\ result' = "none"
    /\ UNCHANGED <<renderVars, dbVars, temp_dirs, svg_files, cloc_raw, config>>

\* temp_folder.join(project.project_name)
project_path == project.project_name

\* clone_repo: Repository::init makes the directory; init, the fetch or the
\* reset may fail, and process_project then returns
CloneRepo ==
    /\ pc = "clone"
    /\ \/ result' = "err" /\ temp_dirs' = temp_dirs /\ pc' = "loop"
       \/ result' = "err" /\ temp_dirs' = temp_dirs \cup {project_path} /\ pc' = "loop"
       \/ result' = "ok" /\ temp_dirs' = temp_dirs \cup {project_path} /\ pc' = "cloc"
    /\ UNCHANGED <<renderVars, dbVars, projects, project, svg_files, cloc_raw,
                   config>>

\* create_cloc_config(project, &project_path), then run_cloc(config): the
\* command or the parse fails, or the parsed mapping is filtered and returned
RunCloc ==
    /\ pc = "cloc"
    /\ config' = create_cloc_config(project, project_path)
    /\ \/ result' = "err" /\ pc' = "cleanup" /\ UNCHANGED <<cloc, cloc_raw>>
       \/ \E raw \in RawOutputs :
            /\ cloc_raw' = raw
            /\ cloc' = retain_not_sum(raw)
            /\ result' = "ok"
            /\ pc' = "svg"
    /\ UNCHANGED <<LANGUAGE_COLORS, title, lang_data, data, svg, dbVars, projects,
                   project, temp_dirs, svg_files>>

\* write_svg_to_output_dir: folder/user/project_name.svg
WriteSvg(files, user, name, contents) ==
    [k \in DOMAIN files \cup {<<user, name>>} |->
        IF k = <<user, name>> THEN contents ELSE files[k]]

\* svg::generate_svg and write_svg_to_output_dir, whose `expect`s panic when
\* the folder or the file cannot be written
GenerateAndWrite ==
    /\ pc = "svg"
    /\ title' = project.title
    /\ \E order \in IterOrders(DOMAIN cloc) :
          GenerateSvg(project.title, cloc, order)
    /\ \/ /\ svg_files' = WriteSvg(svg_files, project.user, project.project_name, svg')
          /\ pc' = "save"
       \/ /\ svg_files' = svg_files
          /\ pc' = "panicked"
    /\ UNCHANGED <<cloc, dbVars, projects, project, temp_dirs, cloc_raw, config,
                   result>>

\* db::save_project_stats(db_url, github_user, project_name, &cloc_data)
CallSaveProjectStats ==
    /\ pc = "save"
    /\ SaveProjectStats(project.user, project.project_name, cloc)
    /\ pc' = "cleanup"
    /\ UNCHANGED <<renderVars, projects, project, temp_dirs, svg_files, cloc_raw,
                   config>>

\* remove_dir_all(&project_path): an error is logged
RemoveTempDir ==
    /\ pc = "cleanup"
    /\ \/ temp_dirs' = temp_dirs \ {project_path}
       \/ temp_dirs' = temp_dirs
    /\ pc' = "loop"
    /\ UNCHANGED <<renderVars, dbVars, projects, project, svg_files, cloc_raw,
                   config, result>>

Next ==
    \/ CreateDatabase
    \/ GetAllProjects
    \/ NextProject
    \/ CloneRepo
    \/ RunCloc
    \/ GenerateAndWrite
    \/ CallSaveProjectStats
    \/ RemoveTempDir

Spec == Init /\ [][Next]_vars

(***************************************************************************)
(* create_cloc_config on its own: the project's two fields are drawn from  *)
(* the strings over a few atoms, or absent                                 *)
(***************************************************************************)
Strings(atoms, n) == UNION {[1..k -> atoms] : k \in 0..n}

OptionalStrings(atoms, n) == {<<>>} \cup {<<str>> : str \in Strings(atoms, n)}

IgnoredLangsInputs == OptionalStrings({",", " ", "Lua", "YAML"}, MaxLangsLen)

IgnoredDirsInputs == OptionalStrings({",", " ", "tmp", ".build"}, MaxDirsLen)

InitConfig ==
    /\ LANGUAGE_COLORS = Unset
    /\ cloc = <<>>
    /\ title = <<>>
    /\ lang_data = <<>>
    /\ data = Unset
    /\ svg = Unset
    /\ pc = "config"
    /\ project_table = {}
    /\ stat_table = EmptyBag
    /\ projects = <<>>
    /\ \E langs \in IgnoredLangsInputs, dirs \in IgnoredDirsInputs :
          project = [id |-> 1, user |-> "wdudokvanheel", project_name |-> "chip8",
                     title |-> <<Text("Chip 8 Emu")>>,
                     ignored_dirs |-> dirs, ignored_langs |-> langs]
    /\ temp_dirs = {}
    /\ svg_files = <<>>
    /\ cloc_raw = <<>>
    /\ config = NoConfig
    /\ result = "none"

CallCreateClocConfig ==
    /\ pc = "config"
    /\ config' = create_cloc_config(project, project_path)
    /\ pc' = "configured"
    /\ UNCHANGED <<renderVars, dbVars, projects, project, temp_dirs, svg_files,
                   cloc_raw, result>>

NextConfig == CallCreateClocConfig

SpecConfig == InitConfig /\ [][NextConfig]_vars

(***************************************************************************)
(* Views of the rendered state                                             *)
(***************************************************************************)
Rendered == pc = "rendered"

NonZero == TotalLoc(cloc) # 0

IsGroup(c) == c.kind = "g"

LeftRows  == SelectSeq(data.left_block, IsGroup)
RightRows == SelectSeq(data.right_block, IsGroup)

\* the label row of the ranked entry at 0-based index i
RowOf(i) == IF i % 2 = 0 THEN LeftRows[(i \div 2) + 1] ELSE RightRows[(i \div 2) + 1]

RankedNames == {lang_data[i].lang : i \in 1..Len(lang_data)}

\* blank + comment + code and files, summed along NamePool
RECURSIVE PoolLines(_, _)
PoolLines(languages, i) ==
    IF i = 0 THEN 0
    ELSE PoolLines(languages, i - 1)
           + (IF NamePool[i] \in DOMAIN languages
              THEN languages[NamePool[i]].blank + languages[NamePool[i]].comment
                     + languages[NamePool[i]].code
              ELSE 0)

RECURSIVE PoolFiles(_, _)
PoolFiles(languages, i) ==
    IF i = 0 THEN 0
    ELSE PoolFiles(languages, i - 1)
           + (IF NamePool[i] \in DOMAIN languages
              THEN languages[NamePool[i]].n_files ELSE 0)

Abs(x) == IF x < 0 THEN -x ELSE x

(***************************************************************************)
(* C1: the rendered output is a function of the mapping's contents only:   *)
(* whatever order the mapping is traversed in, the ranked order of entries *)
(* and the bar, left-column and right-column markup are the same, also     *)
(* when languages have equal line counts.                                  *)
(***************************************************************************)
C1_OutputIndependentOfIterationOrder ==
    Rendered =>
        \A order \in IterOrders(DOMAIN cloc) :
            cloc_to_svg_template_data(
                cloc, order, ColorsUsed(LANGUAGE_COLORS, LangsYml)) = data

(***************************************************************************)
(* C2: with a non-zero total and n languages, the ranked sequence has      *)
(* min(6, n) entries, each a distinct language of the mapping with its     *)
(* line count, the counts do not increase along it, and no language left   *)
(* out has more lines than one that is in it.                              *)
(***************************************************************************)
C2_RankedIsTopSix ==
    (Rendered /\ NonZero) =>
        /\ Len(lang_data) = Min(6, Cardinality(DOMAIN cloc))
        /\ \A i \in 1..Len(lang_data) :
              /\ lang_data[i].lang \in DOMAIN cloc
              /\ lang_data[i].lines
                    = cloc[lang_data[i].lang].blank + cloc[lang_data[i].lang].comment
                        + cloc[lang_data[i].lang].code
        /\ \A i, j \in 1..Len(lang_data) :
              i # j => lang_data[i].lang # lang_data[j].lang
        /\ \A i \in 1..(Len(lang_data) - 1) :
              lang_data[i].lines >= lang_data[i + 1].lines
        /\ \A k \in DOMAIN cloc \ RankedNames :
              \A i \in 1..Len(lang_data) :
                  cloc[k].blank + cloc[k].comment + cloc[k].code <= lang_data[i].lines

\* seven languages of which the one left out has fewer lines than the last kept
C2_Witness ==
    /\ Rendered /\ NonZero
    /\ Cardinality(DOMAIN cloc) = 7
    /\ Len(lang_data) = 6
    /\ \E k \in DOMAIN cloc \ RankedNames :
          total_lines(cloc[k]) < lang_data[6].lines

(***************************************************************************)
(* C3: with a non-zero total, total_lines and total_files are the sums of  *)
(* blank + comment + code and of files over all languages of the mapping,  *)
(* those truncated out of the ranking included, and the subheader prints   *)
(* them.                                                                   *)
(***************************************************************************)
C3_TotalsOverAllLanguages ==
    (Rendered /\ NonZero) =>
        /\ data.total_lines = PoolLines(cloc, Len(NamePool))
        /\ data.total_files = PoolFiles(cloc, Len(NamePool))
        /\ Subheader(data)
              = <<Num(PoolLines(cloc, Len(NamePool))), Text(" lines of code in "),
                  Num(PoolFiles(cloc, Len(NamePool))), Text(" files")>>

\* a language with lines and files is truncated out and still counted
C3_Witness ==
    /\ Rendered /\ NonZero
    /\ Cardinality(DOMAIN cloc) = 7
    /\ data.total_lines > RankedLines(lang_data, Len(lang_data))
    /\ data.total_files > 6

(***************************************************************************)
(* C4: when the mapping is empty or every language has no lines, whatever  *)
(* the file counts, the result is the fixed one: 0 lines, 0 files, the     *)
(* placeholder bar, empty columns; the subheader reads "0 lines of code in *)
(* 0 files"; nothing is ranked and the colour table is not consulted.      *)
(***************************************************************************)
C4_ZeroTotalPlaceholder ==
    (Rendered /\ \A k \in DOMAIN cloc :
                    cloc[k].blank + cloc[k].comment + cloc[k].code = 0) =>
        /\ data = [total_lines |-> 0, total_files |-> 0,
                   bar |-> <<Text("<svg><!-- No code found --></svg>")>>,
                   left_block |-> <<>>, right_block |-> <<>>]
        /\ lang_data = <<>>
        /\ LANGUAGE_COLORS = Unset
        /\ Subheader(data)
              = <<Num(0), Text(" lines of code in "), Num(0), Text(" files")>>

\* languages without lines whose file counts are not zero
C4_Witness ==
    /\ Rendered
    /\ Cardinality(DOMAIN cloc) = 3
    /\ \A k \in DOMAIN cloc : total_lines(cloc[k]) = 0
    /\ \E k \in DOMAIN cloc : cloc[k].n_files = 2
    /\ data.total_files = 0

(***************************************************************************)
(* C5 as stated: one segment per ranked entry; the first starts at x = 0,  *)
(* every later one starts exactly where the one before it ends, and the    *)
(* last one ends at or before 250.  Positions are the printed ones, in     *)
(* hundredths.                                                             *)
(***************************************************************************)
C5_SegmentsExactlyContiguous ==
    (Rendered /\ NonZero) =>
        /\ Len(data.bar) = Len(lang_data)
        /\ data.bar[1].x = 0
        /\ \A i \in 2..Len(data.bar) :
              data.bar[i].x = data.bar[i - 1].x + data.bar[i - 1].width
        /\ data.bar[Len(data.bar)].x + data.bar[Len(data.bar)].width
              <= CANVAS_WIDTH * 100

(***************************************************************************)
(* C5 amended: one segment per ranked entry, in rank order, each with the  *)
(* entry's printed width; the first starts at x = 0; every later one       *)
(* starts within 0.01 of where the one before it ends, and the last one    *)
(* ends at or before 250.01.                                               *)
(***************************************************************************)
C5_SegmentsContiguousToOneHundredth ==
    (Rendered /\ NonZero) =>
        /\ Len(data.bar) = Len(lang_data)
        /\ \A i \in 1..Len(data.bar) :
              /\ data.bar[i].kind = "rect"
              /\ data.bar[i].width
                    = Fmt2([num |-> lang_data[i].lines * 250,
                            den |-> data.total_lines])
        /\ data.bar[1].x = 0
        /\ \A i \in 2..Len(data.bar) :
              Abs(data.bar[i].x - (data.bar[i - 1].x + data.bar[i - 1].width)) <= 1
        /\ data.bar[Len(data.bar)].x + data.bar[Len(data.bar)].width
              <= CANVAS_WIDTH * 100 + 1

\* three segments, the third printed 0.01 off the end of the second
C5_Witness ==
    /\ Rendered /\ NonZero
    /\ Len(data.bar) >= 3
    /\ \E i \in 2..Len(data.bar) :
          data.bar[i].x # data.bar[i - 1].x + data.bar[i - 1].width

(***************************************************************************)
(* C6: the label row of the ranked entry at 0-based index i is in the left *)
(* column when i is even and in the right column when i is odd, at offset  *)
(* floor(i / 2) * 25; the columns hold nothing else, so each lists its     *)
(* entries in rank order at 0, 25, 50, ... and every entry has one row.    *)
(***************************************************************************)
C6_LabelsByParity ==
    (Rendered /\ NonZero) =>
        /\ Len(LeftRows) = (Len(lang_data) + 1) \div 2
        /\ Len(RightRows) = Len(lang_data) \div 2
        /\ \A i \in 0..(Len(lang_data) - 1) :
              /\ RowOf(i).translate = (i \div 2) * 25
              /\ RowOf(i).label.lang = lang_data[i + 1].lang
              /\ RowOf(i).label.pct
                    = Fmt2([num |-> lang_data[i + 1].lines * 100,
                            den |-> data.total_lines])

\* six entries: three rows a column, the last of each at offset 50
C6_Witness ==
    /\ Rendered /\ NonZero
    /\ Len(lang_data) = 6
    /\ Len(LeftRows) = 3 /\ Len(RightRows) = 3
    /\ LeftRows[3].translate = 50 /\ RightRows[3].translate = 50
    /\ LeftRows[3].label.lang = lang_data[5].lang
    /\ RightRows[1].label.lang = lang_data[2].lang

(***************************************************************************)
(* C7: each of the five placeholders of the template is replaced once,     *)
(* where it stands in the template, all other text is kept, and inserted   *)
(* text (a project title, say) is not substituted again.                   *)
(***************************************************************************)
SubstituteOnce(chunk, project_name, d) ==
    CASE chunk = Text("#header#")      -> <<Text("Stats for ")>> \o project_name
      [] chunk = Text("#subheader#")   ->
            <<Num(d.total_lines), Text(" lines of code in "),
              Num(d.total_files), Text(" files")>>
      [] chunk = Text("#bar_rects#")   -> d.bar
      [] chunk = Text("#left_block#")  -> d.left_block
      [] chunk = Text("#right_block#") -> d.right_block
      [] OTHER -> <<chunk>>

RECURSIVE SinglePass(_, _, _, _)
SinglePass(template, i, project_name, d) ==
    IF i > Len(template) THEN <<>>
    ELSE SubstituteOnce(template[i], project_name, d)
            \o SinglePass(template, i + 1, project_name, d)

C7_InsertedTextNotSubstitutedAgain ==
    Rendered => svg = SinglePass(Template, 1, title, data)

(***************************************************************************)
(* C10: the colour table holds exactly the entries of the configuration    *)
(* that carry a color; every segment is filled with its language's         *)
(* registered colour, or "#cccccc" when it has none; the label swatch of   *)
(* an entry has the colour of its segment.                                 *)
(***************************************************************************)
C10_ColorResolution ==
    (Rendered /\ NonZero) =>
        /\ LANGUAGE_COLORS # Unset
        /\ DOMAIN LANGUAGE_COLORS[1]
              = {k \in DOMAIN LangsYml : Len(LangsYml[k].color) = 1}
        /\ \A k \in DOMAIN LANGUAGE_COLORS[1] :
              LANGUAGE_COLORS[1][k] = LangsYml[k].color[1]
        /\ \A i \in 1..Len(lang_data) :
              /\ data.bar[i].fill
                    = IF lang_data[i].lang \in DOMAIN LANGUAGE_COLORS[1]
                      THEN LANGUAGE_COLORS[1][lang_data[i].lang]
                      ELSE "#cccccc"
              /\ RowOf(i - 1).label.fill = data.bar[i].fill

\* a registered language, one whose entry has no color, one with no entry
C10_Witness ==
    /\ Rendered /\ NonZero
    /\ RankedNames = {"Rust", "Go", "TS"}
    /\ \E i \in 1..3 : data.bar[i].fill = "#dea584" /\ lang_data[i].lang = "Rust"
    /\ \E i \in 1..3 : data.bar[i].fill = "#cccccc" /\ lang_data[i].lang = "Go"
    /\ \E i \in 1..3 : RowOf(i - 1).label.fill = "#cccccc"
                         /\ lang_data[i].lang = "TS"


(***************************************************************************)
(* Views of the stored state                                               *)
(***************************************************************************)
\* the rows of project_language_stat that belong to one project
ProjectStats(table, project_id) ==
    LET own == {r \in DOMAIN table : r.project_id = project_id}
    IN  [r \in own |-> table[r]]

IsSumKey(k) == k \in {"SUM", "Sum", "sum"}

(***************************************************************************)
(* C8: whatever key cloc's own total carries ("SUM", "sum", "Sum"), it is  *)
(* not in the mapping run_cloc returns, so on the way to the picture and   *)
(* to the database it is not counted: the totals are those of the          *)
(* languages alone, it is not ranked, and no row is stored for it.         *)
(***************************************************************************)
C8_SumNeverCounted ==
    /\ \A k \in DOMAIN cloc : ~IsSumKey(k)
    /\ pc = "save" =>
          /\ data.total_lines = PoolLines(cloc_raw, Len(NamePool))
          /\ data.total_lines # 0 =>
                data.total_files = PoolFiles(cloc_raw, Len(NamePool))
          /\ \A i \in 1..Len(lang_data) : ~IsSumKey(lang_data[i].lang)
    /\ \A r \in DOMAIN stat_table : ~IsSumKey(r.language)
    /\ (pc = "cleanup" /\ result = "ok") =>
          DOMAIN ProjectStats(stat_table, project.id)
             = {StatRow(project.id, k, cloc_raw[k]) :
                   k \in {n \in DOMAIN cloc_raw : ~IsSumKey(n)}}

\* cloc's total arrived under "sum", which the comparison in db.rs would let
\* through, next to a language with lines; picture and rows are written
C8_Witness ==
    /\ pc = "cleanup" /\ result = "ok"
    /\ "sum" \in DOMAIN cloc_raw
    /\ cloc_raw["sum"].code > 0
    /\ data.total_lines = cloc_raw["sum"].code
    /\ <<project.user, project.project_name>> \in DOMAIN svg_files
    /\ DOMAIN ProjectStats(stat_table, project.id) # {}

(***************************************************************************)
(* C9: after save_project_stats succeeded for (user, project_name), the    *)
(* rows of that project are one per language of the statistics, earlier    *)
(* rows gone, and saving the same statistics again leaves both tables as   *)
(* they are: still one project row, no row added or doubled.               *)
(***************************************************************************)
C9_SaveIsIdempotent ==
    (pc = "cleanup" /\ result = "ok") =>
        /\ Cardinality(MatchingProjects(project_table, project.user,
                                        project.project_name)) = 1
        /\ \A record \in MatchingProjects(project_table, project.user,
                                          project.project_name) :
              /\ ProjectStats(stat_table, record.id)
                    = SetToBag({StatRow(record.id, k, cloc[k]) : k \in DOMAIN cloc})
              /\ \A order \in IterOrders(DOMAIN cloc) :
                    SavedStats(stat_table, record.id, cloc, order) = stat_table

\* project 1 had three earlier rows, two of them equal; two languages are
\* saved while the other project's earlier row is still there
C9_Witness ==
    /\ pc = "cleanup" /\ result = "ok"
    /\ project.id = 1
    /\ projects # <<>>
    /\ [project_id |-> 2, language |-> "Go", files |-> 1, total_lines |-> 1]
          \in DOMAIN stat_table
    /\ DOMAIN cloc = {"Rust", "Go"}
    /\ BagCardinality(ProjectStats(stat_table, 1)) = 2


(***************************************************************************)
(* Views of a ClocConfig                                                   *)
(***************************************************************************)
Range(v) == {v[i] : i \in 1..Len(v)}

\* the positions that bound the pieces of s: before it, its commas, after it
Cuts(s) == {0, Len(s) + 1} \cup {i \in 1..Len(s) : s[i] = ","}

\* the text between two neighbouring bounds
Pieces(s) ==
    {SubSeq(s, c[1] + 1, c[2] - 1) :
        c \in {d \in Cuts(s) \X Cuts(s) :
                 d[1] < d[2] /\ \A k \in Cuts(s) : ~(d[1] < k /\ k < d[2])}}

\* u from its first to its last atom that is not whitespace
Trimmed(u) ==
    LET ink == {i \in 1..Len(u) : u[i] # " "}
    IN  IF ink = {} THEN <<>>
        ELSE SubSeq(u, CHOOSE i \in ink : \A j \in ink : i <= j,
                       CHOOSE i \in ink : \A j \in ink : i >= j)

Items(field) == IF field = <<>> THEN {} ELSE {Trimmed(u) : u \in Pieces(field[1])}

(***************************************************************************)
(* C11: the ignored_langs of the returned config hold the eight built-in   *)
(* languages and every comma-separated, trimmed item of the project's      *)
(* ignored_langs, and nothing else; the ignored_dirs hold the four         *)
(* built-in directories and every such item of the project's ignored_dirs, *)
(* and nothing else; a project without the field gets the built-in list.   *)
(***************************************************************************)
C11_ConfigIsDefaultsAndItems ==
    pc = "configured" =>
        /\ Range(config.ignored_langs)
              = {<<"JSON">>, <<"Markdown">>, <<"Maven">>, <<"Properties">>,
                 <<"SVG">>, <<"TOML">>, <<"XML">>, <<"YAML">>}
                  \cup Items(project.ignored_langs)
        /\ Range(config.ignored_dirs)
              = {<<"target">>, <<".idea">>, <<".git">>, <<".build">>}
                  \cup Items(project.ignored_dirs)
        /\ project.ignored_langs = <<>> =>
              config.ignored_langs
                 = <<(<<"JSON">>), (<<"Markdown">>), (<<"Maven">>), (<<"Properties">>),
                     (<<"SVG">>), (<<"TOML">>), (<<"XML">>), (<<"YAML">>)>>
        /\ project.ignored_dirs = <<>> =>
              config.ignored_dirs
                 = <<(<<"target">>), (<<".idea">>), (<<".git">>), (<<".build">>)>>

\* the languages are " Lua," : two pieces, one of them trimmed to a name, the
\* other empty; the directories are ".build", which dedup folds into the last
\* built-in one
C11_Witness ==
    /\ pc = "configured"
    /\ project.ignored_langs # <<>>
    /\ Cardinality(Pieces(project.ignored_langs[1])) = 2
    /\ \E u \in Pieces(project.ignored_langs[1]) : Trimmed(u) = <<"Lua">> /\ u # <<"Lua">>
    /\ <<"Lua">> \in Range(config.ignored_langs)
    /\ <<>> \in Range(config.ignored_langs)
    /\ project.ignored_dirs = <<(<<".build">>)>>
    /\ Len(config.ignored_dirs) = 4


(***************************************************************************)
(* Views of process_project                                                *)
(***************************************************************************)
\* the control locations inside process_project
InProcessProject == {"clone", "cloc", "svg", "save", "cleanup"}

(***************************************************************************)
(* C12: process_project is left only by the step that attempts to remove   *)
(* the project's temporary directory: after a successful run, after a      *)
(* failed cloc run, after a failed svg or save, and after a failed clone,  *)
(* which may have created the directory.                                   *)
(***************************************************************************)
C12_RemovalAttemptedBeforeEveryReturn ==
    [][(pc \in InProcessProject /\ pc' \notin InProcessProject)
          => pc = "cleanup"]_vars

====
